---- MODULE Spec2Model ----
(***************************************************************************)
(* Authentication and authorization core of the task/project API:          *)
(* the user store (models/userModel.js), the auth controller               *)
(* (controllers/authController.js), the gating middleware and the          *)
(* sliding-window rate limiter (middleware/auth.js) and the route wiring   *)
(* (routes/auth.js).                                                       *)
(*                                                                         *)
(* Strings that the code inspects (emails, usernames, passwords) are       *)
(* sequences of one-character strings, so that toLowerCase, split('@')     *)
(* and concatenation are computed character by character.                  *)
(***************************************************************************)
EXTENDS Integers, Sequences, FiniteSets, TLC

VARIABLES
  users,      \* the users collection: a set of documents
  nextId,     \* the next _id the store hands out
  now,        \* the clock (Date.now()), in ticks
  issued,     \* per user id, the expiry of the latest session token issued (or NoDate)
  pc,         \* per request slot, the await the request is suspended at
  req,        \* per request slot, the handler's local variables
  resp,       \* per request slot, the response sent (NoResp while in flight)
  registered, \* history: per stored user id, the plaintext password it was given
  loggedOut,  \* history: the tokens a logout has been answered 200 for
  resolved,   \* history: per Google subject id, the user the last successful googleAuth returned (0: none)
  projects,   \* the projects collection: the ids of the stored projects
  tasks,      \* the tasks collection: a set of documents [_id, project]
  nextProject, \* the next project _id the store hands out
  nextTask,   \* the next task _id the store hands out
  limMax,     \* the limiter's maxRequests (closure variable of createRateLimit)
  limWindow,  \* the limiter's windowMs
  requests,   \* the limiter's Map: identifier -> sequence of timestamps
  calls       \* history: the limiter calls made so far, in order

vars == <<users, nextId, now, issued, pc, req, resp, registered, loggedOut, resolved,
          projects, tasks, nextProject, nextTask, limMax, limWindow, requests, calls>>
authVars == <<users, nextId, issued, pc, req, resp, registered, loggedOut, resolved>>
taskVars == <<projects, tasks, nextProject, nextTask>>
limVars == <<limMax, limWindow, requests, calls>>

(***************************************************************************)
(* Bounds of the model                                                     *)
(***************************************************************************)
MaxId == 3
MaxNow == 1
JWT_EXPIRE == 1
Procs == {"r1", "r2"}
Ids == 1..MaxId

NoDate == -1
NoGoogleId == "null"

(***************************************************************************)
(* Strings                                                                 *)
(***************************************************************************)
LowerChar(c) ==
  CASE c = "A" -> "a"
    [] c = "B" -> "b"
    [] OTHER -> c

toLowerCase(s) == [i \in DOMAIN s |-> LowerChar(s[i])]

EmailInputs == { <<"a", "@", "x">>, <<"A", "@", "x">>, <<"b", "@", "x">> }
UsernameInputs == { <<"a">>, <<"b">> }
PasswordInputs == { <<"p">>, <<"q">> }
GoogleIds == { "g1", "g2" }

(***************************************************************************)
(* bcrypt                                                                  *)
(***************************************************************************)
Salts == { "s1" }
NoPassword == << >>

\* bcrypt.hash(plain, salt): the salt is stored in the hash, the digest is
\* one-way and determined by salt and plaintext.
BcryptHash(plain, salt) == <<"$2a$12$", salt>> \o plain

\* bcrypt.compare(candidate, hash): re-hash the candidate with the hash's salt.
BcryptCompare(candidate, hash) ==
  /\ Len(hash) >= 2
  /\ hash = BcryptHash(candidate, hash[2])

(***************************************************************************)
(* Session tokens (jsonwebtoken)                                           *)
(***************************************************************************)
JWT_SECRET == "server-secret"
OtherSecret == "other-secret"

JwtSign(payload, secret) == <<payload.userId, payload.exp, secret>>

generateToken(userId, t) ==
  [payload |-> [userId |-> userId, exp |-> t + JWT_EXPIRE],
   sig |-> JwtSign([userId |-> userId, exp |-> t + JWT_EXPIRE], JWT_SECRET)]

NoToken == [payload |-> [userId |-> 0, exp |-> 0], sig |-> << >>]

\* A verification that looks at the expiry before the signature.
JwtVerifyExpiryFirst(token, secret, t) ==
  IF t >= token.payload.exp THEN "TokenExpiredError"
  ELSE IF token.sig # JwtSign(token.payload, secret) THEN "JsonWebTokenError"
  ELSE "ok"

\* jwt.verify: the signature is checked first, then the expiry.
JwtVerify(token, secret, t) ==
  IF token.sig # JwtSign(token.payload, secret) THEN "JsonWebTokenError"
  ELSE IF t >= token.payload.exp THEN "TokenExpiredError"
  ELSE "ok"

(***************************************************************************)
(* The users collection (mongoose schema and hooks)                        *)
(***************************************************************************)
\* new User({...}): schema setters (email lowercase) and defaults.
NewUser(id, username, email, password, googleId) ==
  [_id |-> id, username |-> username, email |-> toLowerCase(email),
   password |-> password, googleId |-> googleId,
   isActive |-> TRUE, role |-> "user", lastLogin |-> NoDate]

\* A hook that hashes whatever password the document holds, on every save.
PreSaveAlways(doc, passwordModified, salt) ==
  IF doc.password = NoPassword
    THEN doc
    ELSE [doc EXCEPT !.password = BcryptHash(doc.password, salt)]

\* pre('save'): hash only if the password path is modified and present.
PreSave(doc, passwordModified, salt) ==
  IF ~passwordModified \/ doc.password = NoPassword
    THEN doc
    ELSE [doc EXCEPT !.password = BcryptHash(doc.password, salt)]

\* A collection without its unique indexes.
UniqueOkNoIndex(coll, doc) == TRUE

\* The unique indexes on username, email and (sparse) googleId: whether the
\* collection accepts doc beside the other documents.
UniqueOk(coll, doc) ==
  \A d \in coll :
    d._id # doc._id =>
      /\ d.username # doc.username
      /\ d.email # doc.email
      /\ (doc.googleId # NoGoogleId => d.googleId # doc.googleId)

\* password: select false. A query result without .select('+password').
Unselect(doc) == [doc EXCEPT !.password = NoPassword]

Exists(coll, id) == \E d \in coll : d._id = id
ById(coll, id) == CHOOSE d \in coll : d._id = id

\* comparePassword: false without a stored password, else bcrypt.compare.
comparePassword(doc, candidatePassword) ==
  IF doc.password = NoPassword
    THEN FALSE
    ELSE BcryptCompare(candidatePassword, doc.password)

\* A save that writes the whole document in memory over the stored one.
SaveWholeDocument(coll, mem, modified, salt) ==
  { IF d._id = mem._id THEN PreSave(mem, "password" \in modified, salt) ELSE d : d \in coll }

\* doc.save() of a document loaded from the store: pre('save') runs on the
\* document in memory, then the modified paths (and the password, if the hook
\* changed it) are written to the stored document with that _id.
Save(coll, mem, modified, salt) ==
  LET hooked == PreSave(mem, "password" \in modified, salt)
      written == modified \cup (IF hooked.password # mem.password THEN {"password"} ELSE {})
  IN { IF d._id = mem._id
         THEN [f \in DOMAIN d |-> IF f \in written THEN hooked[f] ELSE d[f]]
         ELSE d : d \in coll }

\* updateLastLogin: this.lastLogin = new Date(); return this.save().
updateLastLogin(coll, mem, t, salt) ==
  Save(coll, [mem EXCEPT !.lastLogin = t], {"lastLogin"}, salt)

(***************************************************************************)
(* Responses                                                               *)
(***************************************************************************)
\* A response body without a user object.
NoData == [none |-> TRUE]

NoResp ==
  [status |-> 0, error |-> "", message |-> "", user |-> 0, token |-> NoToken,
   data |-> NoData]
Fail(status, error, message) ==
  [status |-> status, error |-> error, message |-> message, user |-> 0, token |-> NoToken,
   data |-> NoData]
Ok(status, message, user, token) ==
  [status |-> status, error |-> "", message |-> message, user |-> user, token |-> token,
   data |-> NoData]

\* A serialisation that keeps every path of the document.
toJSONKeepingPassword(doc) == doc

\* userSchema.methods.toJSON: the object without its password path.
toJSON(doc) == [k \in DOMAIN doc \ {"password"} |-> doc[k]]

\* A response whose body holds the user document, as res.json serialises it.
OkUser(status, message, doc, token) ==
  [status |-> status, error |-> "", message |-> message, user |-> doc._id, token |-> token,
   data |-> toJSON(doc)]

NoReq == [op |-> "none"]

\* The request in slot p ends with response r.
Respond(p, r) ==
  /\ resp' = [resp EXCEPT ![p] = r]
  /\ pc' = [pc EXCEPT ![p] = "idle"]
  /\ req' = [req EXCEPT ![p] = NoReq]

\* The request in slot p suspends at label l with locals q.
Suspend(p, l, q) ==
  /\ resp' = [resp EXCEPT ![p] = NoResp]
  /\ pc' = [pc EXCEPT ![p] = l]
  /\ req' = [req EXCEPT ![p] = q]

(***************************************************************************)
(* register                                                                *)
(***************************************************************************)
\* The duplicate query with the email compared as given.
RegisterMatchesCaseSensitive(coll, username, email) ==
  { u \in coll : u.email = email \/ u.username = username }

\* The duplicate query of register: email lowercased, username as given.
RegisterMatches(coll, username, email) ==
  { u \in coll : u.email = toLowerCase(email) \/ u.username = username }

\* register up to its first await: User.findOne({$or: [email, username]}).
RegisterFind(p, username, email, password) ==
  /\ pc[p] = "idle"
  /\ IF RegisterMatches(users, username, email) # {}
       THEN Respond(p, Fail(400, "User already exists",
                            "A user with this email or username already exists"))
       ELSE Suspend(p, "reg_save", [op |-> "register", username |-> username,
                                    email |-> email, password |-> password])
  /\ UNCHANGED <<users, nextId, now, issued, registered, loggedOut, resolved, taskVars, limVars>>

\* new User({...}) and await user.save(): the insert, hashed by pre('save').
RegisterSave(p, salt) ==
  /\ pc[p] = "reg_save"
  /\ nextId <= MaxId
  /\ LET doc == PreSave(NewUser(nextId, req[p].username, toLowerCase(req[p].email),
                                req[p].password, NoGoogleId), TRUE, salt)
     IN IF UniqueOk(users, doc)
          THEN /\ users' = users \cup {doc}
               /\ nextId' = nextId + 1
               /\ registered' = [registered EXCEPT ![doc._id] = req[p].password]
               /\ Suspend(p, "reg_touch", [op |-> "register", userId |-> doc._id])
          ELSE /\ Respond(p, Fail(500, "Server Error", "Failed to register user"))
               /\ UNCHANGED <<users, nextId, registered>>
  /\ UNCHANGED <<now, issued, loggedOut, resolved, taskVars, limVars>>

\* generateToken, await user.updateLastLogin(), res.status(201).
\* The document in memory is the one saved, its password the stored hash.
RegisterTouch(p, salt) ==
  /\ pc[p] = "reg_touch"
  /\ LET id == req[p].userId
     IN IF Exists(users, id)
          THEN /\ users' = updateLastLogin(users, ById(users, id), now, salt)
               /\ issued' = [issued EXCEPT ![id] = now + JWT_EXPIRE]
               /\ Respond(p, OkUser(201, "User registered successfully",
                                    [ById(users, id) EXCEPT !.lastLogin = now],
                                    generateToken(id, now)))
          ELSE /\ Respond(p, Fail(500, "Server Error", "Failed to register user"))
               /\ UNCHANGED <<users, issued>>
  /\ UNCHANGED <<nextId, now, registered, loggedOut, resolved, taskVars, limVars>>

(***************************************************************************)
(* login                                                                   *)
(***************************************************************************)
\* findByCredentials without the password comparison.
findByCredentialsNoCompare(coll, email, password) ==
  { u \in coll : u.email = toLowerCase(email) }

\* findByCredentials: findOne({email}).select('+password'), comparePassword.
\* The result is the set of documents it returns (empty: it throws).
findByCredentials(coll, email, password) ==
  { u \in coll : u.email = toLowerCase(email) /\ comparePassword(u, password) }

\* A login that tells an unknown email from a wrong password.
LoginAnswerTelling(coll, email, password) ==
  IF email = << >> \/ password = << >>
    THEN Fail(400, "Missing credentials", "Email and password are required")
    ELSE IF \A u \in coll : u.email # toLowerCase(email)
    THEN Fail(401, "Authentication failed", "No account with this email")
    ELSE IF findByCredentials(coll, email, password) = {}
    THEN Fail(401, "Authentication failed", "Invalid login credentials")
    ELSE NoResp

\* What login answers before it writes anything: 400 when the email or the
\* password is missing (!email || !password), 401 with error.message when
\* findByCredentials throws (no user, or no match: the same Error text),
\* nothing yet (NoResp) when it goes on.
LoginAnswer(coll, email, password) ==
  IF email = << >> \/ password = << >>
    THEN Fail(400, "Missing credentials", "Email and password are required")
    ELSE IF findByCredentials(coll, email, password) = {}
    THEN Fail(401, "Authentication failed", "Invalid login credentials")
    ELSE NoResp

\* login up to the end of findByCredentials.
LoginFind(p, email, password) ==
  /\ pc[p] = "idle"
  /\ IF LoginAnswer(users, email, password) # NoResp
       THEN Respond(p, LoginAnswer(users, email, password))
       ELSE \E u \in findByCredentials(users, email, password) :
              Suspend(p, "login_touch", [op |-> "login", userId |-> u._id])
  /\ UNCHANGED <<users, nextId, now, issued, registered, loggedOut, resolved, taskVars, limVars>>

\* A login that stamps every record.
LoginTouchAll(p, salt) ==
  /\ pc[p] = "login_touch"
  /\ LET id == req[p].userId
     IN IF Exists(users, id)
          THEN /\ users' = { [u EXCEPT !.lastLogin = now] : u \in users }
               /\ issued' = [issued EXCEPT ![id] = now + JWT_EXPIRE]
               /\ Respond(p, OkUser(200, "Login successful",
                                    [ById(users, id) EXCEPT !.lastLogin = now],
                                    generateToken(id, now)))
          ELSE /\ Respond(p, Fail(401, "Authentication failed", "No document found"))
               /\ UNCHANGED <<users, issued>>
  /\ UNCHANGED <<nextId, now, registered, loggedOut, resolved, taskVars, limVars>>

\* generateToken, await user.updateLastLogin(), res.status(200).
\* The document in memory was loaded with its password (select('+password')).
LoginTouch(p, salt) ==
  /\ pc[p] = "login_touch"
  /\ LET id == req[p].userId
     IN IF Exists(users, id)
          THEN /\ users' = updateLastLogin(users, ById(users, id), now, salt)
               /\ issued' = [issued EXCEPT ![id] = now + JWT_EXPIRE]
               /\ Respond(p, OkUser(200, "Login successful",
                                    [ById(users, id) EXCEPT !.lastLogin = now],
                                    generateToken(id, now)))
          ELSE /\ Respond(p, Fail(401, "Authentication failed", "No document found"))
               /\ UNCHANGED <<users, issued>>
  /\ UNCHANGED <<nextId, now, registered, loggedOut, resolved, taskVars, limVars>>

(***************************************************************************)
(* googleAuth                                                              *)
(***************************************************************************)
\* email.split('@')[0]
LocalPart(s) ==
  LET ats == { i \in DOMAIN s : s[i] = "@" }
  IN IF ats = {} THEN s
     ELSE SubSeq(s, 1, (CHOOSE i \in ats : \A j \in ats : i <= j) - 1)

Digit(n) ==
  CASE n = 0 -> "0" [] n = 1 -> "1" [] n = 2 -> "2" [] n = 3 -> "3" [] n = 4 -> "4"
    [] n = 5 -> "5" [] n = 6 -> "6" [] n = 7 -> "7" [] n = 8 -> "8" [] OTHER -> "9"

\* `${counter}`: the decimal digits of a positive counter.
RECURSIVE NumStr(_)
NumStr(n) == IF n < 10 THEN <<Digit(n)>> ELSE NumStr(n \div 10) \o <<Digit(n % 10)>>

\* What client.verifyIdToken yields: a verified payload, or it throws.
GoogleTokenInputs ==
  [valid : {TRUE}, sub : GoogleIds, email : EmailInputs]
    \cup { [valid |-> FALSE, sub |-> "g1", email |-> <<"a", "@", "x">>] }

\* The lookup of googleAuth: User.findOne({$or: [{googleId}, {email}]}).
GoogleMatches(coll, googleId, email) ==
  { u \in coll : u.googleId = googleId \/ u.email = toLowerCase(email) }

\* googleAuth up to the end of its findOne.
GoogleFind(p, gtoken) ==
  /\ pc[p] = "idle"
  /\ IF ~gtoken.valid
       THEN Respond(p, Fail(401, "Authentication failed", "Invalid Google token"))
       ELSE LET matches == GoogleMatches(users, gtoken.sub, gtoken.email)
            IN IF matches # {}
                 THEN \E u \in matches :
                        IF u.googleId = NoGoogleId
                          THEN Suspend(p, "g_link", [op |-> "google", userId |-> u._id,
                                                     googleId |-> gtoken.sub])
                          ELSE Suspend(p, "g_touch", [op |-> "google", userId |-> u._id,
                                                      googleId |-> gtoken.sub])
                 ELSE Suspend(p, "g_loop",
                              [op |-> "google", googleId |-> gtoken.sub,
                               email |-> gtoken.email,
                               username |-> LocalPart(gtoken.email),
                               finalUsername |-> LocalPart(gtoken.email),
                               counter |-> 1])
  /\ UNCHANGED <<users, nextId, now, issued, registered, loggedOut, resolved, taskVars, limVars>>

\* user.googleId = googleId; await user.save(): writes the modified path.
GoogleLink(p, salt) ==
  /\ pc[p] = "g_link"
  /\ LET id == req[p].userId
     IN IF Exists(users, id)
             /\ UniqueOk(users, [ById(users, id) EXCEPT !.googleId = req[p].googleId])
          THEN /\ users' = Save(users, [Unselect(ById(users, id)) EXCEPT
                                            !.googleId = req[p].googleId],
                                  {"googleId"}, salt)
               /\ Suspend(p, "g_touch", [op |-> "google", userId |-> id,
                                         googleId |-> req[p].googleId])
          ELSE /\ Respond(p, Fail(401, "Authentication failed", "Invalid Google token"))
               /\ UNCHANGED users
  /\ UNCHANGED <<nextId, now, issued, registered, loggedOut, resolved, taskVars, limVars>>

\* The loop with the counter appended to the previous candidate.
GoogleLoopAppending(p) ==
  /\ pc[p] = "g_loop"
  /\ IF \E u \in users : u.username = req[p].finalUsername
       THEN Suspend(p, "g_loop",
                    [req[p] EXCEPT !.finalUsername = req[p].finalUsername \o NumStr(req[p].counter),
                                   !.counter = req[p].counter + 1])
       ELSE Suspend(p, "g_create", req[p])
  /\ UNCHANGED <<users, nextId, now, issued, registered, loggedOut, resolved, taskVars, limVars>>

\* A loop that tries the same name again.
GoogleLoopStuck(p) ==
  /\ pc[p] = "g_loop"
  /\ IF \E u \in users : u.username = req[p].finalUsername
       THEN Suspend(p, "g_loop", req[p])
       ELSE Suspend(p, "g_create", req[p])
  /\ UNCHANGED <<users, nextId, now, issued, registered, loggedOut, resolved, taskVars, limVars>>

\* The lookup of the loop rejects (a store error): the catch of googleAuth
\* answers 401, nothing is tried again.
GoogleLoopThrows(p) ==
  /\ pc[p] = "g_loop"
  /\ Respond(p, Fail(401, "Authentication failed", "Invalid Google token"))
  /\ UNCHANGED <<users, nextId, now, issued, registered, loggedOut, resolved, taskVars, limVars>>

\* One test of while (await User.findOne({ username: finalUsername })).
GoogleLoop(p) ==
  /\ pc[p] = "g_loop"
  /\ IF \E u \in users : u.username = req[p].finalUsername
       THEN Suspend(p, "g_loop",
                    [req[p] EXCEPT !.finalUsername = req[p].username \o NumStr(req[p].counter),
                                   !.counter = req[p].counter + 1])
       ELSE Suspend(p, "g_create", req[p])
  /\ UNCHANGED <<users, nextId, now, issued, registered, loggedOut, resolved, taskVars, limVars>>

\* new User({...}) without password; await user.save().
GoogleCreate(p) ==
  /\ pc[p] = "g_create"
  /\ nextId <= MaxId
  /\ LET doc == PreSave(NewUser(nextId, req[p].finalUsername, toLowerCase(req[p].email),
                                NoPassword, req[p].googleId), FALSE, "s1")
     IN IF UniqueOk(users, doc)
          THEN /\ users' = users \cup {doc}
               /\ nextId' = nextId + 1
               /\ Suspend(p, "g_touch", [op |-> "google", userId |-> doc._id,
                                         googleId |-> req[p].googleId])
          ELSE /\ Respond(p, Fail(401, "Authentication failed", "Invalid Google token"))
               /\ UNCHANGED <<users, nextId>>
  /\ UNCHANGED <<now, issued, registered, loggedOut, resolved, taskVars, limVars>>

\* generateToken, await user.updateLastLogin(), res.status(200).
\* The document in memory was loaded, or created, without a password.
\* (The history variable resolved is set by the specification: see
\* GoogleRequests and GoogleTouchRecorded.)
GoogleTouch(p, salt) ==
  /\ pc[p] = "g_touch"
  /\ LET id == req[p].userId
     IN IF Exists(users, id)
          THEN /\ users' = updateLastLogin(users, Unselect(ById(users, id)), now, salt)
               /\ issued' = [issued EXCEPT ![id] = now + JWT_EXPIRE]
               /\ Respond(p, OkUser(200, "Google authentication successful",
                                    [Unselect(ById(users, id)) EXCEPT !.lastLogin = now],
                                    generateToken(id, now)))
          ELSE /\ Respond(p, Fail(401, "Authentication failed", "Invalid Google token"))
               /\ UNCHANGED <<users, issued>>
  /\ UNCHANGED <<nextId, now, registered, loggedOut, taskVars, limVars>>

\* GoogleTouch, with the user a successful call returned recorded in history.
GoogleTouchRecorded(p, salt) ==
  /\ GoogleTouch(p, salt)
  /\ resolved' = IF resp'[p].status = 200
                   THEN [resolved EXCEPT ![req[p].googleId] = req[p].userId]
                   ELSE resolved

(***************************************************************************)
(* authenticate and the handlers behind it                                 *)
(***************************************************************************)
\* Tokens a client can put in the Authorization header: the latest token the
\* server issued for a user, that token with its payload altered, and a token
\* signed with another secret.
IssuedTokens ==
  { [payload |-> [userId |-> id, exp |-> issued[id]],
     sig |-> JwtSign([userId |-> id, exp |-> issued[id]], JWT_SECRET)] :
      id \in { i \in Ids : issued[i] # NoDate } }

TamperedTokens ==
  { [t EXCEPT !.payload.exp = t.payload.exp + 1] : t \in IssuedTokens }
    \cup { [t EXCEPT !.payload.userId = (t.payload.userId % MaxId) + 1] : t \in IssuedTokens }

ForgedTokens ==
  { [payload |-> [userId |-> id, exp |-> MaxNow + 1],
     sig |-> JwtSign([userId |-> id, exp |-> MaxNow + 1], OtherSecret)] : id \in Ids }

HeaderInputs ==
  { [scheme |-> "", hasToken |-> FALSE, token |-> NoToken],
    [scheme |-> "Basic", hasToken |-> TRUE, token |-> NoToken],
    [scheme |-> "Bearer", hasToken |-> FALSE, token |-> NoToken] }
    \cup [scheme : {"Bearer"}, hasToken : {TRUE},
          token : IssuedTokens \cup TamperedTokens \cup ForgedTokens]

\* The request bodies of the routes behind authenticate.
BodyInputs(route) ==
  CASE route = "updateProfile" ->
         { [username |-> u] : u \in UsernameInputs }
           \cup { [username |-> <<"b">>, role |-> "admin"] }
    [] route = "changePassword" ->
         [currentPassword : PasswordInputs, newPassword : PasswordInputs]
    [] OTHER -> { [none |-> TRUE] }

Routes == { "getProfile", "updateProfile", "changePassword", "logout", "resource" }

\* authenticate without the test for the Bearer scheme.
AuthVerifyAnyScheme(p, header, route, body) ==
  /\ pc[p] = "idle"
  /\ IF ~header.hasToken
       THEN Respond(p, Fail(401, "Authentication required", "Token is required"))
       ELSE LET v == JwtVerify(header.token, JWT_SECRET, now)
            IN IF v = "TokenExpiredError"
                 THEN Respond(p, Fail(401, "Token expired",
                                      "Your session has expired. Please log in again"))
                 ELSE IF v = "JsonWebTokenError"
                 THEN Respond(p, Fail(401, "Invalid token", "The provided token is invalid"))
                 ELSE Suspend(p, "auth_find", [op |-> route, body |-> body,
                                               token |-> header.token])
  /\ UNCHANGED <<users, nextId, now, issued, registered, loggedOut, resolved, taskVars, limVars>>

\* authenticate up to its await: the header checks and jwt.verify.
AuthVerify(p, header, route, body) ==
  /\ pc[p] = "idle"
  /\ IF header.scheme # "Bearer"
       THEN Respond(p, Fail(401, "Authentication required",
                            "Please provide a valid Bearer token"))
       ELSE IF ~header.hasToken
       THEN Respond(p, Fail(401, "Authentication required", "Token is required"))
       ELSE LET v == JwtVerify(header.token, JWT_SECRET, now)
            IN IF v = "TokenExpiredError"
                 THEN Respond(p, Fail(401, "Token expired",
                                      "Your session has expired. Please log in again"))
                 ELSE IF v = "JsonWebTokenError"
                 THEN Respond(p, Fail(401, "Invalid token", "The provided token is invalid"))
                 ELSE Suspend(p, "auth_find", [op |-> route, body |-> body,
                                               token |-> header.token])
  /\ UNCHANGED <<users, nextId, now, issued, registered, loggedOut, resolved, taskVars, limVars>>

\* authenticate without the isActive check.
AuthFindIgnoringActive(p) ==
  /\ pc[p] = "auth_find"
  /\ LET id == req[p].token.payload.userId
     IN IF ~Exists(users, id)
          THEN Respond(p, Fail(401, "Authentication failed", "User not found"))
          ELSE Suspend(p, "handler", [op |-> req[p].op, body |-> req[p].body,
                                      token |-> req[p].token,
                                      user |-> Unselect(ById(users, id))])
  /\ UNCHANGED <<users, nextId, now, issued, registered, loggedOut, resolved, taskVars, limVars>>

\* authenticate after await User.findById(decoded.userId): req.user = user; next().
AuthFind(p) ==
  /\ pc[p] = "auth_find"
  /\ LET id == req[p].token.payload.userId
     IN IF ~Exists(users, id)
          THEN Respond(p, Fail(401, "Authentication failed", "User not found"))
          ELSE IF ~ById(users, id).isActive
          THEN Respond(p, Fail(401, "Account deactivated",
                               "Your account has been deactivated"))
          ELSE Suspend(p, "handler", [op |-> req[p].op, body |-> req[p].body,
                                      token |-> req[p].token,
                                      user |-> Unselect(ById(users, id))])
  /\ UNCHANGED <<users, nextId, now, issued, registered, loggedOut, resolved, taskVars, limVars>>

\* optionalAuth up to its await: no Bearer header, or a token jwt.verify
\* refuses (an empty one included), goes on to the handler without identity.
OptVerify(p, header) ==
  /\ pc[p] = "idle"
  /\ IF header.scheme # "Bearer"
       THEN Suspend(p, "opt_handler", [op |-> "optional"])
       ELSE IF ~header.hasToken \/ JwtVerify(header.token, JWT_SECRET, now) # "ok"
       THEN Suspend(p, "opt_handler", [op |-> "optional", token |-> header.token])
       ELSE Suspend(p, "opt_find", [op |-> "optional", token |-> header.token])
  /\ UNCHANGED <<users, nextId, now, issued, registered, loggedOut, resolved, taskVars, limVars>>

\* optionalAuth that attaches whatever user the token names.
OptFindIgnoringActive(p) ==
  /\ pc[p] = "opt_find"
  /\ LET id == req[p].token.payload.userId
     IN IF Exists(users, id)
          THEN Suspend(p, "opt_handler", [op |-> "optional", token |-> req[p].token,
                                          user |-> Unselect(ById(users, id))])
          ELSE Suspend(p, "opt_handler", [op |-> "optional", token |-> req[p].token])
  /\ UNCHANGED <<users, nextId, now, issued, registered, loggedOut, resolved, taskVars, limVars>>

\* optionalAuth after await User.findById: if (user && user.isActive)
\* req.user = user; then next() either way.
OptFind(p) ==
  /\ pc[p] = "opt_find"
  /\ LET id == req[p].token.payload.userId
     IN IF Exists(users, id) /\ ById(users, id).isActive
          THEN Suspend(p, "opt_handler", [op |-> "optional", token |-> req[p].token,
                                          user |-> Unselect(ById(users, id))])
          ELSE Suspend(p, "opt_handler", [op |-> "optional", token |-> req[p].token])
  /\ UNCHANGED <<users, nextId, now, issued, registered, loggedOut, resolved, taskVars, limVars>>

\* The handler behind optionalAuth: it answers for req.user, or for nobody.
OptHandler(p) ==
  /\ pc[p] = "opt_handler"
  /\ Respond(p, Ok(200, "", IF "user" \in DOMAIN req[p] THEN req[p].user._id ELSE 0,
                   NoToken))
  /\ UNCHANGED <<users, nextId, now, issued, registered, loggedOut, resolved, taskVars, limVars>>

(***************************************************************************)
(* Projects and tasks                                                      *)
(***************************************************************************)
MaxProjects == 2
MaxTasks == 2
ProjectIds == 1..MaxProjects
TaskIds == 1..MaxTasks
\* req.body.project of a request that has none.
NoProject == 0

userFrame == <<users, nextId, now, issued, registered, loggedOut, resolved>>

\* createProject: new Project({...}) and await newProject.save().
CreateProject(p) ==
  /\ pc[p] = "idle"
  /\ nextProject <= MaxProjects
  /\ projects' = projects \cup {nextProject}
  /\ nextProject' = nextProject + 1
  /\ Respond(p, Ok(201, "Project created successfully", 0, NoToken))
  /\ UNCHANGED <<userFrame, tasks, nextTask, limVars>>

\* createTask up to its first await: if (req.body.project) await
\* Project.findById(...), 404 when there is none.
CreateTaskFind(p, project) ==
  /\ pc[p] = "idle"
  /\ IF project # NoProject /\ project \notin projects
       THEN Respond(p, Fail(404, "Project not found", "The specified project does not exist"))
       ELSE Suspend(p, "task_save", [op |-> "createTask", project |-> project])
  /\ UNCHANGED <<userFrame, taskVars, limVars>>

\* createTask: await newTask.save() (project is a required path), then 201.
CreateTaskSave(p) ==
  /\ pc[p] = "task_save"
  /\ IF req[p].project = NoProject
       THEN /\ Respond(p, Fail(400, "Validation Error", "Task must belong to a project"))
            /\ UNCHANGED <<tasks, nextTask>>
       ELSE /\ nextTask <= MaxTasks
            /\ tasks' = tasks \cup {[_id |-> nextTask, project |-> req[p].project]}
            /\ nextTask' = nextTask + 1
            /\ Respond(p, Ok(201, "Task created successfully", 0, NoToken))
  /\ UNCHANGED <<userFrame, projects, nextProject, limVars>>

\* updateTask up to its first await: Task.findById(id), 404 when there is none.
UpdateTaskFind(p, id, project) ==
  /\ pc[p] = "idle"
  /\ IF \A t \in tasks : t._id # id
       THEN Respond(p, Fail(404, "Task not found", "No task found with this ID"))
       ELSE Suspend(p, IF project = NoProject THEN "task_update" ELSE "task_project",
                    [op |-> "updateTask", id |-> id, project |-> project])
  /\ UNCHANGED <<userFrame, taskVars, limVars>>

\* updateTask: if (req.body.project) await Project.findById(...), 404 when
\* there is none.
UpdateTaskProject(p) ==
  /\ pc[p] = "task_project"
  /\ IF req[p].project \notin projects
       THEN Respond(p, Fail(404, "Project not found", "The specified project does not exist"))
       ELSE Suspend(p, "task_update", req[p])
  /\ UNCHANGED <<userFrame, taskVars, limVars>>

\* updateTask: await Task.findByIdAndUpdate(id, updateData), 400 when the
\* task is gone.
UpdateTaskWrite(p) ==
  /\ pc[p] = "task_update"
  /\ IF \A t \in tasks : t._id # req[p].id
       THEN /\ Respond(p, Fail(400, "Update failed", "Failed to update the task"))
            /\ UNCHANGED tasks
       ELSE /\ tasks' = { IF t._id = req[p].id /\ req[p].project # NoProject
                            THEN [t EXCEPT !.project = req[p].project] ELSE t : t \in tasks }
            /\ Respond(p, Ok(200, "Task updated successfully", 0, NoToken))
  /\ UNCHANGED <<userFrame, projects, nextProject, nextTask, limVars>>

\* deleteTask up to its first await: Task.findById(id).
DeleteTaskFind(p, id) ==
  /\ pc[p] = "idle"
  /\ IF \A t \in tasks : t._id # id
       THEN Respond(p, Fail(404, "Task not found", "No task found with this ID"))
       ELSE Suspend(p, "task_delete", [op |-> "deleteTask", id |-> id])
  /\ UNCHANGED <<userFrame, taskVars, limVars>>

\* deleteTask: await Task.findByIdAndDelete(id), 400 when the task is gone.
DeleteTaskWrite(p) ==
  /\ pc[p] = "task_delete"
  /\ IF \A t \in tasks : t._id # req[p].id
       THEN /\ Respond(p, Fail(400, "Deletion failed", "Failed to delete the task"))
            /\ UNCHANGED tasks
       ELSE /\ tasks' = { t \in tasks : t._id # req[p].id }
            /\ Respond(p, Ok(200, "Task deleted successfully", 0, NoToken))
  /\ UNCHANGED <<userFrame, projects, nextProject, nextTask, limVars>>

\* deleteProject up to its first await: Project.findById(id).
DeleteProjectFind(p, id) ==
  /\ pc[p] = "idle"
  /\ IF id \notin projects
       THEN Respond(p, Fail(404, "Project not found", "No project found with this ID"))
       ELSE Suspend(p, "proj_count", [op |-> "deleteProject", id |-> id])
  /\ UNCHANGED <<userFrame, taskVars, limVars>>

\* deleteProject: await Task.countDocuments({project: id}), 400 when it is
\* positive.
DeleteProjectCount(p) ==
  /\ pc[p] = "proj_count"
  /\ IF \E t \in tasks : t.project = req[p].id
       THEN Respond(p, Fail(400, "Cannot delete project",
                            "This project has associated tasks. Please delete or reassign tasks first."))
       ELSE Suspend(p, "proj_delete", req[p])
  /\ UNCHANGED <<userFrame, taskVars, limVars>>

\* deleteProject: await Project.findByIdAndDelete(id), 400 when the project
\* is gone.
DeleteProjectWrite(p) ==
  /\ pc[p] = "proj_delete"
  /\ IF req[p].id \notin projects
       THEN /\ Respond(p, Fail(400, "Deletion failed", "Failed to delete the project"))
            /\ UNCHANGED projects
       ELSE /\ projects' = projects \ {req[p].id}
            /\ Respond(p, Ok(200, "Project deleted successfully", 0, NoToken))
  /\ UNCHANGED <<userFrame, tasks, nextProject, nextTask, limVars>>

\* The project and task requests, handled in request slot p.
TaskRequests(p) ==
  \/ CreateProject(p)
  \/ \E project \in ProjectIds \cup {NoProject} : CreateTaskFind(p, project)
  \/ CreateTaskSave(p)
  \/ \E id \in TaskIds, project \in ProjectIds \cup {NoProject} : UpdateTaskFind(p, id, project)
  \/ UpdateTaskProject(p)
  \/ UpdateTaskWrite(p)
  \/ \E id \in TaskIds : DeleteTaskFind(p, id)
  \/ DeleteTaskWrite(p)
  \/ \E id \in ProjectIds : DeleteProjectFind(p, id)
  \/ DeleteProjectCount(p)
  \/ DeleteProjectWrite(p)

(***************************************************************************)
(* requireOwnership                                                        *)
(***************************************************************************)
\* What req.body[f], req.params[f] or req.query[f] can hold: nothing, a
\* string (the empty one included) or a number.
Absent == [kind |-> "absent", s |-> "", n |-> 0]
Str(s) == [kind |-> "string", s |-> s, n |-> 0]
Num(n) == [kind |-> "number", s |-> "", n |-> n]

\* JavaScript truthiness: undefined, '' and 0 are falsy.
Truthy(v) ==
  CASE v.kind = "absent" -> FALSE
    [] v.kind = "string" -> v.s # ""
    [] v.kind = "number" -> v.n # 0

\* value.toString()
ValueToString(v) == IF v.kind = "string" THEN v.s ELSE ToString(v.n)

\* a || b || c: the first truthy operand, the last one if there is none.
FirstTruthy(a, b, c) == IF Truthy(a) THEN a ELSE IF Truthy(b) THEN b ELSE c

FieldInputs == { Absent, Str(""), Num(0), Num(1) } \cup { Str(ToString(id)) : id \in Ids }

\* req.user as the guard reads it, for every user id and both roles.
IdentityInputs == [_id : Ids, role : {"user", "admin"}]

\* A request reaches requireOwnership(f) with or without req.user and with
\* the field f in its body, path parameters and query string.
OwnershipArrive(p, hasUser, user, body, params, query) ==
  /\ pc[p] = "idle"
  /\ IF hasUser
       THEN Suspend(p, "own_guard", [op |-> "owned", user |-> user, body |-> body,
                                     params |-> params, query |-> query])
       ELSE Suspend(p, "own_guard", [op |-> "owned", body |-> body,
                                     params |-> params, query |-> query])
  /\ UNCHANGED <<users, nextId, now, issued, registered, loggedOut, resolved, taskVars, limVars>>

\* requireOwnership(f): 401 without req.user, next() for an admin, next()
\* when the first truthy of body, params and query equals the id as a string.
RequireOwnership(p) ==
  /\ pc[p] = "own_guard"
  /\ IF "user" \notin DOMAIN req[p]
       THEN Respond(p, Fail(401, "Authentication required",
                            "Please log in to access this resource"))
       ELSE IF req[p].user.role = "admin"
       THEN Suspend(p, "own_handler", req[p])
       ELSE LET resourceUserId == FirstTruthy(req[p].body, req[p].params, req[p].query)
            IN IF Truthy(resourceUserId)
                    /\ ValueToString(resourceUserId) = ToString(req[p].user._id)
                 THEN Suspend(p, "own_handler", req[p])
                 ELSE Respond(p, Fail(403, "Access denied",
                                      "You can only access your own resources"))
  /\ UNCHANGED <<users, nextId, now, issued, registered, loggedOut, resolved, taskVars, limVars>>

\* The handler behind requireOwnership.
OwnedHandler(p) ==
  /\ pc[p] = "own_handler"
  /\ Respond(p, Ok(200, "", req[p].user._id, NoToken))
  /\ UNCHANGED <<users, nextId, now, issued, registered, loggedOut, resolved, taskVars, limVars>>

\* A handler behind authenticate that only reads (tasks, projects, getProfile, logout).
Resource(p) ==
  /\ pc[p] = "handler"
  /\ req[p].op = "resource"
  /\ Respond(p, Ok(200, "", req[p].user._id, NoToken))
  /\ UNCHANGED <<users, nextId, now, issued, registered, loggedOut, resolved, taskVars, limVars>>

\* User.findById(id): the document as a default query returns it, if any.
findById(coll, id) == { Unselect(d) : d \in { x \in coll : x._id = id } }

\* getProfile: await User.findById(req.user._id); 404 or the document.
GetProfile(p) ==
  /\ pc[p] = "handler"
  /\ req[p].op = "getProfile"
  /\ LET found == findById(users, req[p].user._id)
     IN IF found = {}
          THEN Respond(p, Fail(404, "User not found", "User profile not found"))
          ELSE \E user \in found : Respond(p, OkUser(200, "", user, NoToken))
  /\ UNCHANGED <<users, nextId, now, issued, registered, loggedOut, resolved, taskVars, limVars>>

\* logout: res.status(200), nothing else; the token stays as it was.
Logout(p) ==
  /\ pc[p] = "handler"
  /\ req[p].op = "logout"
  /\ Respond(p, Ok(200, "Logged out successfully", req[p].user._id, NoToken))
  /\ loggedOut' = loggedOut \cup { req[p].token }
  /\ UNCHANGED <<users, nextId, now, issued, registered, resolved, taskVars, limVars>>

\* An allow-list that also lets the role through.
allowedUpdatesWithRole == { "firstName", "lastName", "username", "role" }

allowedUpdates == { "firstName", "lastName", "username" }

\* findByIdAndUpdate(id, updates): the document with every path of the
\* updates that the schema has set to the value sent.
ApplyUpdates(doc, updates) ==
  [k \in DOMAIN doc |-> IF k \in DOMAIN updates THEN updates[k] ELSE doc[k]]

\* updateProfile without its allow-list.
UpdateProfileNoAllowList(p) ==
  /\ pc[p] = "handler"
  /\ req[p].op = "updateProfile"
  /\ LET id == req[p].user._id
         updates == req[p].body
     IN IF ~Exists(users, id)
          THEN /\ Respond(p, Fail(404, "User not found", "User not found"))
               /\ UNCHANGED users
          ELSE IF ~UniqueOk(users, ApplyUpdates(ById(users, id), updates))
          THEN /\ Respond(p, Fail(500, "Server Error", "Failed to update profile"))
               /\ UNCHANGED users
          ELSE /\ users' = { IF d._id = id THEN ApplyUpdates(d, updates) ELSE d : d \in users }
               /\ Respond(p, OkUser(200, "Profile updated successfully",
                                    Unselect(ApplyUpdates(ById(users, id), updates)), NoToken))
  /\ UNCHANGED <<nextId, now, issued, registered, loggedOut, resolved, taskVars, limVars>>

\* updateProfile: the allow-list, then await User.findByIdAndUpdate(...).
UpdateProfile(p) ==
  /\ pc[p] = "handler"
  /\ req[p].op = "updateProfile"
  /\ LET id == req[p].user._id
         updates == req[p].body
     IN IF ~(DOMAIN updates \subseteq allowedUpdates)
          THEN /\ Respond(p, Fail(400, "Invalid updates",
                                  "Only firstName, lastName, and username can be updated"))
               /\ UNCHANGED users
          ELSE IF ~Exists(users, id)
          THEN /\ Respond(p, Fail(404, "User not found", "User not found"))
               /\ UNCHANGED users
          ELSE IF ~UniqueOk(users, ApplyUpdates(ById(users, id), updates))
          THEN /\ Respond(p, Fail(500, "Server Error", "Failed to update profile"))
               /\ UNCHANGED users
          ELSE /\ users' = { IF d._id = id THEN ApplyUpdates(d, updates) ELSE d : d \in users }
               /\ Respond(p, OkUser(200, "Profile updated successfully",
                                    Unselect(ApplyUpdates(ById(users, id), updates)), NoToken))
  /\ UNCHANGED <<nextId, now, issued, registered, loggedOut, resolved, taskVars, limVars>>

\* changePassword: await User.findById, comparePassword, user.password =
\* newPassword, await user.save(). The steps after findById are taken in the
\* same action: the handler never gets past its first check (see C10).
ChangePassword(p, salt) ==
  /\ pc[p] = "handler"
  /\ req[p].op = "changePassword"
  /\ LET found == findById(users, req[p].user._id)
     IN IF found = {} \/ (\A u \in found : u.password = NoPassword)
          THEN /\ Respond(p, Fail(400, "Cannot change password",
                                  "Password change not available for this account"))
               /\ UNCHANGED users
          ELSE LET user == CHOOSE u \in found : TRUE
               IN IF ~comparePassword(user, req[p].body.currentPassword)
                    THEN /\ Respond(p, Fail(400, "Invalid password",
                                            "Current password is incorrect"))
                         /\ UNCHANGED users
                    ELSE /\ users' = Save(users, [user EXCEPT !.password =
                                                     req[p].body.newPassword],
                                          {"password"}, salt)
                         /\ Respond(p, Ok(200, "Password changed successfully", 0, NoToken))
  /\ UNCHANGED <<nextId, now, issued, registered, loggedOut, resolved, taskVars, limVars>>

(***************************************************************************)
(* createRateLimit: the sliding-window limiter                             *)
(***************************************************************************)
MaxM == 2
MaxW == 2
MaxClock == 3
MaxCalls == 5
Identifiers == { "ip1", "ip2" }

\* The filter keeping a timestamp that lies exactly one window back.
InWindowFilterInclusive(timestamps, windowStart) ==
  SelectSeq(timestamps, LAMBDA time : time >= windowStart)

\* timestamps.filter(time => time > windowStart)
InWindowFilter(timestamps, windowStart) ==
  SelectSeq(timestamps, LAMBDA time : time > windowStart)

\* A clean-up that empties the Map.
CleanUpClearing(reqs, windowStart) == [key \in {} |-> << >>]

\* The clean-up loop over all keys: filter each, delete the keys left empty.
CleanUp(reqs, windowStart) ==
  [key \in { k \in DOMAIN reqs : InWindowFilter(reqs[k], windowStart) # << >> } |->
     InWindowFilter(reqs[key], windowStart)]

\* requests.get(identifier) || []
GetOrEmpty(reqs, identifier) ==
  IF identifier \in DOMAIN reqs THEN reqs[identifier] ELSE << >>

\* The admission test off by one.
AdmitsOffByOne(userRequests, maxRequests) == ~(Len(userRequests) > maxRequests)

\* The admission test: not (userRequests.length >= maxRequests).
Admits(userRequests, maxRequests) == ~(Len(userRequests) >= maxRequests)

\* The value the limiter returns for identifier at time t.
AllowResult(reqs, maxRequests, windowMs, identifier, t) ==
  Admits(GetOrEmpty(CleanUp(reqs, t - windowMs), identifier), maxRequests)

\* A limiter that records the rejected calls too.
AllowStateRecordingRejected(reqs, maxRequests, windowMs, identifier, t) ==
  LET cleaned == CleanUp(reqs, t - windowMs)
      userRequests == GetOrEmpty(cleaned, identifier)
  IN [key \in DOMAIN cleaned \cup {identifier} |->
        IF key = identifier THEN Append(userRequests, t) ELSE cleaned[key]]

\* The Map after the call.
AllowState(reqs, maxRequests, windowMs, identifier, t) ==
  LET cleaned == CleanUp(reqs, t - windowMs)
      userRequests == GetOrEmpty(cleaned, identifier)
  IN IF Admits(userRequests, maxRequests)
       THEN [key \in DOMAIN cleaned \cup {identifier} |->
               IF key = identifier THEN Append(userRequests, t) ELSE cleaned[key]]
       ELSE cleaned

\* One call of the limiter function, recorded in the history.
Call(route, identifier) ==
  /\ requests' = AllowState(requests, limMax, limWindow, identifier, now)
  /\ calls' = Append(calls, [route |-> route, id |-> identifier, at |-> now,
                             ok |-> AllowResult(requests, limMax, limWindow, identifier, now)])
  /\ UNCHANGED <<limMax, limWindow, now, authVars, taskVars>>

\* allow(identifier) on a limiter created with (limMax, limWindow).
Allow(identifier) ==
  /\ Len(calls) < MaxCalls
  /\ Call("none", identifier)

TickLimiter ==
  /\ now < MaxClock
  /\ now' = now + 1
  /\ UNCHANGED <<authVars, taskVars, limVars>>

(***************************************************************************)
(* rateLimiter: the middleware mounted on the auth routes                  *)
(***************************************************************************)
WindowMs == 900000
GeneralMax == 100
RegisterMax == 5
LoginMax == 10
GoogleMax == 10
MaxRouteCalls == 6
MaxRouteTicks == 1

RateLimitedRoutes == { "register", "login", "google" }

\* The maxRequests each route passes to rateLimiter(maxRequests, windowMs).
ConfiguredMax(route) ==
  CASE route = "register" -> RegisterMax
    [] route = "login" -> LoginMax
    [] OTHER -> GoogleMax

\* rateLimiter(maxRequests, windowMs)(req, res, next): the identifier is the
\* client address; the decision is generalRateLimit(identifier), whatever
\* maxRequests and windowMs the route was mounted with.
RateLimiter(route, maxRequests, windowMs, ip) ==
  /\ Len(calls) < MaxRouteCalls
  /\ Call(route, ip)

\* The clock between requests, in steps of half a window.
TickRoutes ==
  /\ now < MaxRouteTicks * (WindowMs \div 2)
  /\ now' = now + (WindowMs \div 2)
  /\ UNCHANGED <<authVars, taskVars, limVars>>

(***************************************************************************)
(* The environment: the clock, and changes made to the store out of band   *)
(***************************************************************************)
Tick ==
  /\ now < MaxNow
  /\ now' = now + 1
  /\ UNCHANGED <<authVars, taskVars, limVars>>

DeleteUser(id) ==
  /\ Exists(users, id)
  /\ users' = { d \in users : d._id # id }
  /\ registered' = [registered EXCEPT ![id] = NoPassword]
  /\ UNCHANGED <<nextId, now, issued, pc, req, resp, loggedOut, resolved, taskVars, limVars>>

Deactivate(id) ==
  /\ Exists(users, id)
  /\ ById(users, id).isActive
  /\ users' = { IF d._id = id THEN [d EXCEPT !.isActive = FALSE] ELSE d : d \in users }
  /\ UNCHANGED <<nextId, now, issued, pc, req, resp, registered, loggedOut, resolved, taskVars, limVars>>

(***************************************************************************)
(* The specification of the authentication core                            *)
(***************************************************************************)
\* The state after start-up: an empty store, no request in flight.
InitAuth ==
  /\ users = {}
  /\ nextId = 1
  /\ now = 0
  /\ issued = [id \in Ids |-> NoDate]
  /\ pc = [p \in Procs |-> "idle"]
  /\ req = [p \in Procs |-> NoReq]
  /\ resp = [p \in Procs |-> NoResp]
  /\ registered = [id \in Ids |-> NoPassword]
  /\ loggedOut = {}
  /\ resolved = [g \in GoogleIds |-> 0]
  /\ projects = {}
  /\ tasks = {}
  /\ nextProject = 1
  /\ nextTask = 1

\* generalRateLimit = createRateLimit(100, 15 * 60 * 1000), its Map empty.
InitGeneralLimiter ==
  /\ limMax = GeneralMax
  /\ limWindow = WindowMs
  /\ requests = [k \in {} |-> << >>]
  /\ calls = << >>

Init == InitAuth /\ InitGeneralLimiter

\* register and login, handled in request slot p.
PasswordRequests(p) ==
  \/ \E u \in UsernameInputs, e \in EmailInputs, pw \in PasswordInputs :
       RegisterFind(p, u, e, pw)
  \/ \E s \in Salts : RegisterSave(p, s)
  \/ \E s \in Salts : RegisterTouch(p, s)
  \/ \E e \in EmailInputs, pw \in PasswordInputs : LoginFind(p, e, pw)
  \/ \E s \in Salts : LoginTouch(p, s)

\* googleAuth, handled in request slot p.
GoogleRequests(p) ==
  \/ \E g \in GoogleTokenInputs : GoogleFind(p, g)
  \/ \E s \in Salts : GoogleLink(p, s)
  \/ GoogleLoop(p)
  \/ GoogleCreate(p)
  \/ \E s \in Salts : GoogleTouch(p, s) /\ UNCHANGED resolved

\* One request at a time (register, login and the read-only routes behind
\* authenticate), the clock and the store changing between its awaits.
Next ==
  \/ \E u \in UsernameInputs, e \in EmailInputs : RegisterFind("r1", u, e, <<"p">>)
  \/ \E s \in Salts : RegisterSave("r1", s)
  \/ \E s \in Salts : RegisterTouch("r1", s)
  \/ \E e \in EmailInputs, pw \in PasswordInputs : LoginFind("r1", e, pw)
  \/ \E s \in Salts : LoginTouch("r1", s)
  \/ \E h \in HeaderInputs : \E b \in BodyInputs("resource") :
       AuthVerify("r1", h, "resource", b)
  \/ AuthFind("r1")
  \/ Resource("r1")
  \/ Tick
  \/ \E id \in Ids : DeleteUser(id)
  \/ \E id \in Ids : Deactivate(id)

Spec == Init /\ [][Next]_vars

\* One request at a time: register, login and googleAuth.
NextOAuth ==
  \/ PasswordRequests("r1")
  \/ GoogleRequests("r1")
  \/ Tick

SpecOAuth == Init /\ [][NextOAuth]_vars

\* One request at a time: register, login, googleAuth and changePassword
\* (behind authenticate, with an issued token).
NextChange ==
  \/ PasswordRequests("r1")
  \/ GoogleRequests("r1")
  \/ \E t \in IssuedTokens, b \in BodyInputs("changePassword") :
       AuthVerify("r1", [scheme |-> "Bearer", hasToken |-> TRUE, token |-> t],
                  "changePassword", b)
  \/ AuthFind("r1")
  \/ \E s \in Salts : ChangePassword("r1", s)

SpecChange == Init /\ [][NextChange]_vars

\* One request at a time: register, login, logout and the read-only routes
\* behind authenticate, with the tokens the server issued, as the clock advances.
NextSession ==
  \/ PasswordRequests("r1")
  \/ \E t \in IssuedTokens, r \in { "logout", "resource" } :
       AuthVerify("r1", [scheme |-> "Bearer", hasToken |-> TRUE, token |-> t],
                  r, [none |-> TRUE])
  \/ AuthFind("r1")
  \/ Logout("r1")
  \/ Resource("r1")
  \/ Tick

SpecSession == Init /\ [][NextSession]_vars

\* One request at a time: register, login and googleAuth, the user each
\* successful googleAuth returned recorded per subject id.
NextGoogle ==
  \/ PasswordRequests("r1")
  \/ \E g \in GoogleTokenInputs : GoogleFind("r1", g)
  \/ \E s \in Salts : GoogleLink("r1", s)
  \/ GoogleLoop("r1")
  \/ GoogleCreate("r1")
  \/ \E s \in Salts : GoogleTouchRecorded("r1", s)

SpecGoogle == Init /\ [][NextGoogle]_vars

\* Google tokens whose emails share the local part "a".
NameTokenInputs ==
  [valid : {TRUE}, sub : GoogleIds, email : { <<"a", "@", "x">>, <<"a", "@", "y">> }]

\* One request at a time: register (under another email) and googleAuth for
\* identities whose emails have the same local part (no account is linked:
\* no token carries a registered email).
NextNames ==
  \/ \E u \in UsernameInputs : RegisterFind("r1", u, <<"b", "@", "x">>, <<"p">>)
  \/ \E s \in Salts : RegisterSave("r1", s)
  \/ \E s \in Salts : RegisterTouch("r1", s)
  \/ \E g \in NameTokenInputs : GoogleFind("r1", g)
  \/ GoogleLoop("r1")
  \/ GoogleCreate("r1")
  \/ \E s \in Salts : GoogleTouch("r1", s) /\ UNCHANGED resolved

SpecNames == Init /\ [][NextNames]_vars

\* The same requests, the lookups of the loop failing at will. A lookup
\* that is pending is answered by the store: the loop step is weakly fair.
NextLoop ==
  \/ \E u \in UsernameInputs : RegisterFind("r1", u, <<"b", "@", "x">>, <<"p">>)
  \/ \E s \in Salts : RegisterSave("r1", s)
  \/ \E s \in Salts : RegisterTouch("r1", s)
  \/ \E g \in NameTokenInputs : GoogleFind("r1", g)
  \/ GoogleLoop("r1")
  \/ GoogleLoopThrows("r1")
  \/ GoogleCreate("r1")
  \/ \E s \in Salts : GoogleTouch("r1", s) /\ UNCHANGED resolved

SpecLoop == Init /\ [][NextLoop]_vars /\ WF_vars(GoogleLoop("r1"))

\* One request at a time to a route behind authenticate, with every kind of
\* Authorization header, while one account is registered, deactivated and
\* deleted and the clock advances.
NextHeaders ==
  \/ RegisterFind("r1", <<"a">>, <<"a", "@", "x">>, <<"p">>)
  \/ \E s \in Salts : RegisterSave("r1", s)
  \/ \E s \in Salts : RegisterTouch("r1", s)
  \/ \E h \in HeaderInputs : AuthVerify("r1", h, "resource", [none |-> TRUE])
  \/ AuthFind("r1")
  \/ Resource("r1")
  \/ Tick
  \/ \E id \in Ids : DeleteUser(id)
  \/ \E id \in Ids : Deactivate(id)

SpecHeaders == Init /\ [][NextHeaders]_vars

\* The same requests to a route behind optionalAuth.
NextOptional ==
  \/ RegisterFind("r1", <<"a">>, <<"a", "@", "x">>, <<"p">>)
  \/ \E s \in Salts : RegisterSave("r1", s)
  \/ \E s \in Salts : RegisterTouch("r1", s)
  \/ \E h \in HeaderInputs : OptVerify("r1", h)
  \/ OptFind("r1")
  \/ OptHandler("r1")
  \/ Tick
  \/ \E id \in Ids : DeleteUser(id)
  \/ \E id \in Ids : Deactivate(id)

SpecOptional == Init /\ [][NextOptional]_vars

\* The password routes and PUT /profile with an issued token.
NextProfile ==
  \/ PasswordRequests("r1")
  \/ \E t \in IssuedTokens, b \in BodyInputs("updateProfile") :
       AuthVerify("r1", [scheme |-> "Bearer", hasToken |-> TRUE, token |-> t],
                  "updateProfile", b)
  \/ AuthFind("r1")
  \/ UpdateProfile("r1")

SpecProfile == Init /\ [][NextProfile]_vars

\* Every route that answers with a user object: register, login, googleAuth,
\* GET /profile and PUT /profile.
NextBodies ==
  \/ PasswordRequests("r1")
  \/ GoogleRequests("r1")
  \/ \E t \in IssuedTokens, route \in {"getProfile", "updateProfile"} :
       \E b \in BodyInputs(route) :
         AuthVerify("r1", [scheme |-> "Bearer", hasToken |-> TRUE, token |-> t], route, b)
  \/ AuthFind("r1")
  \/ GetProfile("r1")
  \/ UpdateProfile("r1")

SpecBodies == Init /\ [][NextBodies]_vars

\* Two project and task requests in flight at once, interleaved at their awaits.
NextTasks == \E p \in Procs : TaskRequests(p)

SpecTasks == Init /\ [][NextTasks]_vars

\* Logins with every kind of credentials, missing ones included, against up
\* to MaxId registered accounts, the clock advancing and accounts being
\* deleted between the awaits.
NextLogin ==
  \/ \E u \in UsernameInputs, e \in {<<"a", "@", "x">>, <<"b", "@", "x">>} :
       RegisterFind("r1", u, e, <<"p">>)
  \/ \E s \in Salts : RegisterSave("r1", s)
  \/ \E s \in Salts : RegisterTouch("r1", s)
  \/ \E e \in EmailInputs \cup {<< >>}, pw \in PasswordInputs \cup {<< >>} :
       LoginFind("r1", e, pw)
  \/ \E s \in Salts : LoginTouch("r1", s)
  \/ Tick
  \/ \E id \in Ids : DeleteUser(id)

SpecLogin == Init /\ [][NextLogin]_vars

\* register, login, googleAuth, updateProfile and changePassword.
NextRoles ==
  \/ PasswordRequests("r1")
  \/ GoogleRequests("r1")
  \/ \E t \in IssuedTokens, route \in {"updateProfile", "changePassword"} :
       \E b \in BodyInputs(route) :
         AuthVerify("r1", [scheme |-> "Bearer", hasToken |-> TRUE, token |-> t], route, b)
  \/ AuthFind("r1")
  \/ UpdateProfile("r1")
  \/ \E s \in Salts : ChangePassword("r1", s)

SpecRoles == Init /\ [][NextRoles]_vars

\* Requests to a route behind requireOwnership, for every identity and every
\* value of the field in the three parts of the request.
NextOwnership ==
  \/ \E hasUser \in BOOLEAN, user \in IdentityInputs, body, params, query \in FieldInputs :
       OwnershipArrive("r1", hasUser, user, body, params, query)
  \/ RequireOwnership("r1")
  \/ OwnedHandler("r1")

SpecOwnership == Init /\ [][NextOwnership]_vars

\* Two requests handled concurrently, interleaved at their awaits: register,
\* googleAuth and updateProfile (behind authenticate, with an issued token).
NextRace ==
  \E p \in Procs :
    \/ \E u \in UsernameInputs, e \in EmailInputs :
         RegisterFind(p, u, e, <<"p">>)
    \/ \E s \in Salts : RegisterSave(p, s)
    \/ \E s \in Salts : RegisterTouch(p, s)
    \/ GoogleRequests(p)
    \/ \E t \in IssuedTokens, b \in { [username |-> u] : u \in UsernameInputs } :
         AuthVerify(p, [scheme |-> "Bearer", hasToken |-> TRUE, token |-> t],
                    "updateProfile", b)
    \/ AuthFind(p)
    \/ UpdateProfile(p)

SpecRace == Init /\ [][NextRace]_vars

\* A limiter created with any maxRequests and windowMs within the bounds,
\* called for any identifiers as the clock advances.
InitLimiter ==
  /\ InitAuth
  /\ limMax \in 1..MaxM
  /\ limWindow \in 1..MaxW
  /\ requests = [k \in {} |-> << >>]
  /\ calls = << >>

NextLimiter ==
  \/ \E id \in Identifiers : Allow(id)
  \/ TickLimiter

SpecLimiter == InitLimiter /\ [][NextLimiter]_vars

\* The rate-limited routes of routes/auth.js, requested from one address.
NextRoutes ==
  \/ \E r \in RateLimitedRoutes : RateLimiter(r, ConfiguredMax(r), WindowMs, "ip1")
  \/ TickRoutes

SpecRoutes == Init /\ [][NextRoutes]_vars

(***************************************************************************)
(* Properties                                                              *)
(***************************************************************************)
\* C1: authenticate passes a request on to the handler, and attaches an
\* identity, only if the token's signature verifies against the server secret
\* and its expiry has not passed (when the token is verified) and the user it
\* names exists and is active (when the user is looked up).
AuthenticateGate ==
  [][\A p \in Procs :
       /\ (pc[p] # "auth_find" /\ pc'[p] = "auth_find") =>
            LET t == req'[p].token
            IN /\ t.sig = <<t.payload.userId, t.payload.exp, JWT_SECRET>>
               /\ now < t.payload.exp
       /\ (pc[p] # "handler" /\ pc'[p] = "handler") =>
            /\ pc[p] = "auth_find"
            /\ \E u \in users :
                 /\ u._id = req[p].token.payload.userId
                 /\ u.isActive
                 /\ req'[p].user._id = u._id
       /\ ("user" \in DOMAIN req'[p]) => pc'[p] = "handler"
    ]_vars

\* A handler runs for one user after the clock has advanced and another user
\* has been deactivated.
AuthenticatedAfterChanges ==
  /\ pc["r1"] = "handler"
  /\ now > 0
  /\ \E u \in users : ~u.isActive /\ u._id # req["r1"].user._id

\* C2: a register request whose email (case-insensitively) or username is
\* that of a stored user is answered 'User already exists' and leaves the
\* users collection unchanged.
RegisterConflict ==
  [][\A p \in Procs :
       (pc[p] = "idle" /\ (pc'[p] # pc[p] \/ resp'[p] # resp[p])) =>
         \A u \in UsernameInputs, e \in EmailInputs :
           (\E d \in users : toLowerCase(d.email) = toLowerCase(e) \/ d.username = u) =>
             \A pw \in PasswordInputs :
               RegisterFind(p, u, e, pw)
               => /\ resp'[p].status = 400
                  /\ resp'[p].error = "User already exists"
                  /\ pc'[p] = "idle"
                  /\ users' = users
    ]_vars

\* A register request has been answered with the conflict.
ConflictAnswered ==
  /\ resp["r1"].error = "User already exists"
  /\ users # {}

\* C3: no two user documents share a username, an email (case-insensitively)
\* or a googleId.
UniqueUsers ==
  \A a \in users, b \in users :
    IF a._id = b._id THEN a = b
    ELSE /\ a.username # b.username
         /\ toLowerCase(a.email) # toLowerCase(b.email)
         /\ (a.googleId # NoGoogleId => a.googleId # b.googleId)

\* Two requests raced: both passed their duplicate check, and the insert of
\* the second was refused.
RaceRefused ==
  /\ Cardinality(users) >= 1
  /\ \E p \in Procs : resp[p].message = "Failed to register user"

\* The timestamps of identifier id in seq ts that lie inside the window at time t.
InWindow(ts, t) == { i \in DOMAIN ts : ts[i] > t - limWindow }

\* C4: the number of timestamps recorded for an identifier inside the
\* trailing window never exceeds the limiter's maximum, nor does the number
\* of calls admitted for it inside the window.
WindowNeverExceedsMax ==
  /\ \A id \in DOMAIN requests : Cardinality(InWindow(requests[id], now)) <= limMax
  /\ \A id \in Identifiers :
       Cardinality({ i \in DOMAIN calls :
                      calls[i].id = id /\ calls[i].ok /\ calls[i].at > now - limWindow })
         <= limMax

\* An identifier has its window full and has had a call rejected.
WindowFull ==
  \E id \in DOMAIN requests :
    /\ Cardinality(InWindow(requests[id], now)) = limMax
    /\ \E i \in DOMAIN calls : calls[i].id = id /\ ~calls[i].ok

CallsOf(id) == { i \in DOMAIN calls : calls[i].id = id }
FirstCallAt(id) == calls[CHOOSE i \in CallsOf(id) : \A j \in CallsOf(id) : i <= j].at
WithinFirstWindow(id, i) == calls[i].at < FirstCallAt(id) + limWindow

\* C5: of an identifier's calls made within the window of its first call,
\* the first limMax return true and the later ones false; its first call made
\* once that window has passed returns true.
SlidingWindowScenario ==
  \A id \in Identifiers :
    /\ \A i \in CallsOf(id) :
         WithinFirstWindow(id, i) =>
           (calls[i].ok <=> Cardinality({ j \in CallsOf(id) : j <= i }) <= limMax)
    /\ \A i \in CallsOf(id) :
         ( /\ ~WithinFirstWindow(id, i)
           /\ \A j \in CallsOf(id) : j < i => WithinFirstWindow(id, j) )
         => calls[i].ok

\* An identifier was admitted limMax times, rejected, and admitted again once
\* the window of its first call had passed.
RejectedThenReadmitted ==
  \E id \in Identifiers : \E i \in CallsOf(id), j \in CallsOf(id) :
    /\ i < j
    /\ WithinFirstWindow(id, i) /\ ~calls[i].ok
    /\ ~WithinFirstWindow(id, j) /\ calls[j].ok
    /\ \A k \in CallsOf(id) : k < j => WithinFirstWindow(id, k)

\* C6: every rate-limited route enforces the maximum it was mounted with, in
\* a bucket of its own: a request is admitted exactly when fewer than the
\* route's maximum of the same address's requests to the same route were
\* admitted within the window before it.
RoutesEnforceConfiguredLimits ==
  \A i \in DOMAIN calls :
    LET c == calls[i]
        prior == { j \in 1..(i - 1) :
                     /\ calls[j].route = c.route
                     /\ calls[j].id = c.id
                     /\ calls[j].ok
                     /\ calls[j].at > c.at - WindowMs }
    IN c.ok <=> Cardinality(prior) < ConfiguredMax(c.route)

InactiveLoginFails ==
  [][\A e \in EmailInputs, pw \in PasswordInputs :
       ( /\ LoginFind("r1", e, pw)
         /\ \E u \in users :
              /\ u.email = toLowerCase(e)
              /\ ~u.isActive
              /\ registered[u._id] # NoPassword
              /\ pw = registered[u._id] )
       => /\ pc'["r1"] = "idle"
          /\ resp'["r1"].status = 401
          /\ users' = users
          /\ issued' = issued
    ]_vars

\* C9: a password login against a user with a googleId and no password is
\* refused, with a message other than the one for a wrong password.
OAuthOnlyLoginDistinct ==
  [][\A e \in EmailInputs, pw \in PasswordInputs :
       ( /\ LoginFind("r1", e, pw)
         /\ \E u \in users :
              u.email = toLowerCase(e) /\ u.password = NoPassword /\ u.googleId # NoGoogleId )
       => /\ pc'["r1"] = "idle"
          /\ resp'["r1"].status = 401
          /\ resp'["r1"].message # "Invalid login credentials"
    ]_vars

\* C10: changePassword with the correct current password of a password
\* account is answered 200, after which the new password verifies and the
\* old one does not.
ChangePasswordSucceeds ==
  [][\A s \in Salts :
       ( /\ ChangePassword("r1", s)
         /\ Exists(users, req["r1"].user._id)
         /\ registered[req["r1"].user._id] # NoPassword
         /\ req["r1"].body.currentPassword = registered[req["r1"].user._id] )
       => /\ resp'["r1"].status = 200
          /\ \E u \in users' :
               /\ u._id = req["r1"].user._id
               /\ comparePassword(u, req["r1"].body.newPassword)
               /\ (req["r1"].body.newPassword # req["r1"].body.currentPassword
                     => ~comparePassword(u, req["r1"].body.currentPassword))
    ]_vars

\* C11: a token the server issues for user u at time t0 names u and verifies
\* at every clock value from t0 up to, but not including, t0 + TTL; from
\* t0 + TTL on, verification fails with TokenExpiredError; the token with its
\* payload altered, or signed with another secret, fails with
\* JsonWebTokenError at every clock value.
TokenLifetime ==
  [][\A p \in Procs :
       (pc[p] # "idle" /\ resp'[p].token # NoToken) =>
         LET t == resp'[p].token
             others == { [t EXCEPT !.payload.userId = (t.payload.userId % MaxId) + 1],
                         [t EXCEPT !.payload.exp = t.payload.exp + 1],
                         [t EXCEPT !.sig = JwtSign(t.payload, OtherSecret)] }
         IN /\ t.payload.userId = resp'[p].user
            /\ \A c \in now..(now + JWT_EXPIRE + 1) :
                 /\ JwtVerify(t, JWT_SECRET, c) =
                      (IF c < now + JWT_EXPIRE THEN "ok" ELSE "TokenExpiredError")
                 /\ \A o \in others : JwtVerify(o, JWT_SECRET, c) = "JsonWebTokenError"
    ]_vars

\* authenticate has refused a token the server issued, as expired.
ExpiredTokenRefused ==
  /\ resp["r1"].error = "Token expired"
  /\ \E id \in Ids : issued[id] # NoDate /\ issued[id] <= now

\* C12: a token a logout has been answered 200 for is never again accepted
\* by authenticate: no later request presenting it reaches a handler.
LogoutInvalidatesToken ==
  [][\A p \in Procs :
       (pc[p] = "auth_find" /\ pc'[p] = "handler") => req'[p].token \notin loggedOut
    ]_vars

\* C13: once a googleAuth call with subject id g has returned a user, every
\* later successful call with subject id g returns that same user, and no
\* later call with subject id g creates a user record.
GoogleAuthIdempotent ==
  [][/\ \A g \in GoogleIds : resolved[g] # 0 => resolved'[g] = resolved[g]
     /\ (pc["r1"] = "g_create" /\ users' # users) => resolved[req["r1"].googleId] = 0
    ]_vars

\* C14: when one record has the token's subject id as googleId and another
\* record has the token's email, googleAuth goes on with the record matched
\* by subject id.
SubjectIdTakesPrecedence ==
  [][\A g \in GoogleTokenInputs :
       ( /\ g.valid
         /\ \E w \in users, v \in users :
              w.googleId = g.sub /\ v._id # w._id /\ v.email = toLowerCase(g.email)
         /\ GoogleFind("r1", g) )
       => \E w \in users :
            /\ w.googleId = g.sub
            /\ pc'["r1"] = "g_touch"
            /\ req'["r1"].userId = w._id
    ]_vars

Numeral == <<"1", "2", "3", "4", "5", "6", "7", "8", "9">>

\* C16: the user googleAuth creates for an email with local part n gets as
\* username the first of n, n1, n2, n3, ... that no stored user has.
UsernameIsFirstFree ==
  [][(pc["r1"] = "g_create" /\ users' # users) =>
       LET n == LocalPart(req["r1"].email)
           taken == { d.username : d \in users }
           Candidate(k) == IF k = 0 THEN n ELSE n \o <<Numeral[k]>>
           first == CHOOSE k \in 0..MaxId :
                      /\ Candidate(k) \notin taken
                      /\ \A j \in 0..(k - 1) : Candidate(j) \in taken
       IN \E d \in users' \ users :
            /\ d.username = Candidate(first)
            /\ users' = users \cup {d}
    ]_vars

\* With a and a1 taken, a user named a2 has been created.
ThirdNameGiven ==
  /\ \E d \in users : d.username = <<"a">>
  /\ \E d \in users : d.username = <<"a", "1">>
  /\ \E d \in users : d.username = <<"a", "2">> /\ d.googleId # NoGoogleId

\* C17: authenticate answers with the outcome of the first failing step, in
\* the order header, token, user, active flag: no Bearer header or no token
\* gives 'Authentication required'; a token whose signature does not verify
\* gives 'Invalid token'; a verified token past its expiry gives 'Token
\* expired'; a token naming no stored user gives 'User not found'; an
\* inactive user gives 'Account deactivated'. A rejected request is answered
\* once with 401 and ends there: no identity attached, no handler run.
AuthenticateFailureOrder ==
  [][/\ pc["r1"] = "idle" =>
          \A h \in HeaderInputs :
            AuthVerify("r1", h, "resource", [none |-> TRUE]) =>
              LET failure ==
                    IF h.scheme # "Bearer" \/ ~h.hasToken THEN "Authentication required"
                    ELSE IF h.token.sig # <<h.token.payload.userId, h.token.payload.exp,
                                            JWT_SECRET>>
                      THEN "Invalid token"
                    ELSE IF now >= h.token.payload.exp THEN "Token expired"
                    ELSE ""
              IN IF failure = ""
                   THEN pc'["r1"] = "auth_find" /\ resp'["r1"] = NoResp
                   ELSE /\ pc'["r1"] = "idle"
                        /\ req'["r1"] = NoReq
                        /\ resp'["r1"].status = 401
                        /\ resp'["r1"].error = failure
     /\ (pc["r1"] = "auth_find" /\ pc'["r1"] # "auth_find") =>
          LET id == req["r1"].token.payload.userId
              failure ==
                IF ~\E u \in users : u._id = id THEN "User not found"
                ELSE IF \E u \in users : u._id = id /\ ~u.isActive
                  THEN "Account deactivated"
                ELSE ""
          IN IF failure = ""
               THEN pc'["r1"] = "handler" /\ req'["r1"].user._id = id
               ELSE /\ pc'["r1"] = "idle"
                    /\ req'["r1"] = NoReq
                    /\ resp'["r1"].status = 401
                    /\ failure \in { resp'["r1"].error, resp'["r1"].message }
    ]_vars

\* authenticate has refused a stored, inactive user's valid token.
InactiveUserRefused ==
  /\ resp["r1"].error = "Account deactivated"
  /\ \E u \in users : ~u.isActive /\ issued[u._id] > now

\* C18: optionalAuth never answers a request itself: whatever the header, the
\* request reaches the handler; it carries an identity exactly when the
\* header is a Bearer token whose signature verifies and whose expiry has
\* not passed (when the token is verified) and the user it names exists and
\* is active (when the user is looked up), and the identity is that user.
OptionalAuthNeverRejects ==
  [][/\ pc["r1"] = "idle" =>
          \A h \in HeaderInputs :
            OptVerify("r1", h) =>
              LET verified ==
                    /\ h.scheme = "Bearer"
                    /\ h.hasToken
                    /\ h.token.sig = <<h.token.payload.userId, h.token.payload.exp,
                                       JWT_SECRET>>
                    /\ now < h.token.payload.exp
              IN /\ resp'["r1"] = NoResp
                 /\ pc'["r1"] = (IF verified THEN "opt_find" ELSE "opt_handler")
                 /\ "user" \notin DOMAIN req'["r1"]
     /\ (pc["r1"] = "opt_find" /\ pc'["r1"] # "opt_find") =>
          LET id == req["r1"].token.payload.userId
          IN /\ pc'["r1"] = "opt_handler"
             /\ resp'["r1"] = NoResp
             /\ ("user" \in DOMAIN req'["r1"]) <=> (\E u \in users : u._id = id /\ u.isActive)
             /\ ("user" \in DOMAIN req'["r1"]) => req'["r1"].user._id = id
     /\ (pc["r1"] = "opt_handler" /\ pc'["r1"] # "opt_handler") =>
          /\ resp'["r1"].status = 200
          /\ resp'["r1"].user = (IF "user" \in DOMAIN req["r1"] THEN req["r1"].user._id ELSE 0)
    ]_vars

\* A request with an inactive user's valid token is at the handler, without identity.
InactivePassedWithoutIdentity ==
  /\ pc["r1"] = "opt_handler"
  /\ "token" \in DOMAIN req["r1"]
  /\ "user" \notin DOMAIN req["r1"]
  /\ JwtVerify(req["r1"].token, JWT_SECRET, now) = "ok"
  /\ \E u \in users : u._id = req["r1"].token.payload.userId /\ ~u.isActive

\* C19: the ownership guard answers 401 without an identity, lets an admin
\* through, and for any other identity takes the field from the body if it
\* is present there, else from the path parameters, else from the query,
\* and lets the request through exactly when that value as a string is the
\* identity's id as a string; otherwise it answers 403 'Access denied'.
OwnershipGuard ==
  [][(pc["r1"] = "own_guard" /\ pc'["r1"] # "own_guard") =>
       LET r == req["r1"]
           value == IF r.body.kind # "absent" THEN r.body
                    ELSE IF r.params.kind # "absent" THEN r.params
                    ELSE r.query
           allowed == /\ value.kind # "absent"
                      /\ ValueToString(value) = ToString(r.user._id)
       IN IF "user" \notin DOMAIN r
            THEN resp'["r1"].status = 401 /\ resp'["r1"].error = "Authentication required"
            ELSE IF r.user.role = "admin" \/ allowed
            THEN pc'["r1"] = "own_handler" /\ resp'["r1"] = NoResp
            ELSE resp'["r1"].status = 403 /\ resp'["r1"].error = "Access denied"
    ]_vars

\* C20: an updateProfile request whose payload has a key other than
\* firstName, lastName and username is answered 400 'Invalid updates' and
\* leaves every user record as it was, the allowed fields of the same
\* payload included.
ProfileUpdateRejectedWholesale ==
  [][(/\ pc["r1"] = "handler"
      /\ req["r1"].op = "updateProfile"
      /\ pc'["r1"] # "handler"
      /\ \E k \in DOMAIN req["r1"].body : k \notin {"firstName", "lastName", "username"})
       => /\ resp'["r1"].status = 400
          /\ resp'["r1"].error = "Invalid updates"
          /\ users' = users
    ]_vars

\* A payload with username and role was refused: the user still has the
\* username and the role it had.
MixedPayloadRefused ==
  /\ resp["r1"].error = "Invalid updates"
  /\ \E u \in users : u.username # <<"b">> /\ u.role = "user"

\* C21: no response body of register, login, googleAuth, getProfile or
\* updateProfile holds the user's password or its hash: the user object of
\* every response has no password path.
NoPasswordInResponses ==
  \A p \in Procs : "password" \notin DOMAIN resp[p].data

\* A login was answered with the user object of an account that has a stored hash.
LoginAnsweredWithUser ==
  /\ resp["r1"].message = "Login successful"
  /\ "email" \in DOMAIN resp["r1"].data
  /\ \E u \in users : u._id = resp["r1"].user /\ u.password # NoPassword

\* C22: whatever register, login, googleAuth, updateProfile and
\* changePassword are sent, a record they create has role 'user' and the
\* role of a record that exists is not changed.
RoleNeverSetThroughApi ==
  [][\A u \in users' :
       IF \E old \in users : old._id = u._id
         THEN \A old \in users : old._id = u._id => u.role = old.role
         ELSE u.role = "user"
    ]_vars

\* A payload asking for the admin role was refused while two accounts exist,
\* both with role 'user'.
AdminPayloadRefused ==
  /\ resp["r1"].error = "Invalid updates"
  /\ Cardinality(users) >= 2
  /\ \A u \in users : u.role = "user"

\* C23: a login with missing credentials, an unknown email or a wrong
\* password fails and changes no user record; a login that fails later
\* changes none either; a login answered 200 sets lastLogin of the matched
\* record to the current time and changes nothing else in the collection.
LoginFrame ==
  [][/\ pc["r1"] = "idle" =>
          \A e \in EmailInputs \cup {<< >>}, pw \in PasswordInputs \cup {<< >>} :
            (/\ LoginFind("r1", e, pw)
             /\ \/ e = << >>
                \/ pw = << >>
                \/ \A u \in users : u.email = toLowerCase(e) => registered[u._id] # pw)
              => /\ resp'["r1"].status \in {400, 401}
                 /\ pc'["r1"] = "idle"
                 /\ users' = users
     /\ (pc["r1"] = "login_touch" /\ pc'["r1"] # "login_touch") =>
          IF resp'["r1"].status = 200
            THEN users' = { IF u._id = req["r1"].userId
                              THEN [u EXCEPT !.lastLogin = now] ELSE u : u \in users }
            ELSE users' = users
    ]_vars

\* A login succeeded at a later time than the registration, beside another account.
LoginStampedOne ==
  /\ resp["r1"].message = "Login successful"
  /\ \E u, w \in users :
       /\ u._id = resp["r1"].user
       /\ w._id # u._id
       /\ u.lastLogin = now
       /\ w.lastLogin # now

\* C24: a login for an email of a password account with another password is
\* answered exactly as the same login would be were that account not in the
\* collection: status, error and message do not tell whether the email exists.
LoginHidesExistence ==
  \A e \in EmailInputs, pw \in PasswordInputs :
    \A u \in users :
      (u.email = toLowerCase(e) /\ u.password # NoPassword /\ registered[u._id] # pw)
        => LoginAnswer(users, e, pw)
             = LoginAnswer({ w \in users : w.email # toLowerCase(e) }, e, pw)

\* A login was refused while one input email has an account and another has none.
RefusedBesideKnownAndUnknown ==
  /\ resp["r1"].message = "Invalid login credentials"
  /\ \E e \in EmailInputs : \E u \in users : u.email = toLowerCase(e)
  /\ \E e \in EmailInputs : \A u \in users : u.email # toLowerCase(e)

\* C25: whatever createTask, updateTask, deleteTask and deleteProject
\* requests interleave, no stored task references a project that has been
\* deleted (a project id the store handed out and no longer holds).
NoTaskOfDeletedProject ==
  \A t \in tasks : t.project \in projects

\* C26: googleAuth answers 200, with a session token, only for a record
\* whose googleId is the subject id of the verified provider token.
GoogleAuthBoundToSubject ==
  [][(pc["r1"] = "g_touch" /\ resp'["r1"].status = 200) =>
       \A u \in users' :
         u._id = resp'["r1"].user => u.googleId = req["r1"].googleId
    ]_vars

\* C27: a rejected call records nothing for its identifier (its timestamps
\* after the call are those it had, less the ones that left the window), and
\* a call is admitted exactly when fewer than limMax of the identifier's
\* admitted calls lie inside the window, however many rejected calls were
\* made in between.
RejectedCallsRecordNothing ==
  [][calls' # calls =>
       LET c == calls'[Len(calls')]
           before == IF c.id \in DOMAIN requests THEN requests[c.id] ELSE << >>
           after == IF c.id \in DOMAIN requests' THEN requests'[c.id] ELSE << >>
           admitted == { i \in DOMAIN calls :
                          calls[i].id = c.id /\ calls[i].ok /\ calls[i].at > now - limWindow }
       IN /\ ~c.ok => after = SelectSeq(before, LAMBDA time : time > now - limWindow)
          /\ c.ok <=> Cardinality(admitted) < limMax
    ]_vars

\* An identifier was rejected twice in a row and admitted at its next call.
ReadmittedAfterTwoRejections ==
  \E id \in Identifiers : \E i, j, k \in CallsOf(id) :
    /\ i < j /\ j < k
    /\ \A l \in CallsOf(id) : l <= i \/ l = j \/ l >= k
    /\ ~calls[i].ok /\ ~calls[j].ok /\ calls[k].ok

\* C29: a call allow(a) leaves the in-window timestamps of every other
\* identifier b as they were, and with them the value allow(b) returns at
\* the same or any later clock value.
OtherIdentifiersUntouched ==
  [][calls' # calls =>
       LET a == calls'[Len(calls')].id
       IN \A b \in Identifiers \ {a} :
            LET before == IF b \in DOMAIN requests THEN requests[b] ELSE << >>
                after == IF b \in DOMAIN requests' THEN requests'[b] ELSE << >>
            IN /\ SelectSeq(after, LAMBDA time : time > now - limWindow)
                    = SelectSeq(before, LAMBDA time : time > now - limWindow)
               /\ \A t \in now..MaxClock :
                    AllowResult(requests', limMax, limWindow, b, t)
                      = AllowResult(requests, limMax, limWindow, b, t)
    ]_vars

\* An identifier was called while the other one had its window full.
CalledBesideFullWindow ==
  /\ Len(calls) >= 2
  /\ LET a == calls[Len(calls)].id
     IN \E b \in DOMAIN requests :
          /\ b # a
          /\ calls[Len(calls)].at = now
          /\ Cardinality(InWindow(requests[b], now)) = limMax

UsernameLoopTerminates ==
  /\ (pc["r1"] = "g_loop") ~> (pc["r1"] # "g_loop")
  /\ [](pc["r1"] = "g_loop" => req["r1"].counter <= Cardinality(users) + 1)
  /\ [][(pc["r1"] = "g_loop" /\ pc'["r1"] = "idle") =>
          /\ resp'["r1"].status = 401
          /\ users' = users
          /\ req'["r1"] = NoReq
       ]_vars

\* The loop ended at its last possible lookup: every stored user held one
\* of the names tried before.
LoopEndedAtBound ==
  /\ pc["r1"] = "g_create"
  /\ Cardinality(users) = 2
  /\ req["r1"].counter = Cardinality(users) + 1

====
